---------------------------- MODULE Spec2Model ----------------------------
(***************************************************************************)
(* The authenticated API client of the RevCopy admin panel                 *)
(* (revcopy-admin-main/src/lib/api.ts): TokenManager over localStorage and *)
(* ApiClient.request / handleAuthError / login / logout.                   *)
(*                                                                         *)
(* JavaScript runs each handler to completion between two awaits, so every *)
(* action below is one such run: from the resumption of an await to the    *)
(* next await (or to the return).                                          *)
(***************************************************************************)
EXTENDS Integers, Sequences, FiniteSets, TLC

VARIABLES
    localStorage,   \* window.localStorage: a function from the keys present to strings
    now,            \* Date.now(), in milliseconds
    location,       \* window.location.href (the path)
    calls,          \* the client calls in flight, one record per slot
    storeLog        \* the last TokenManager writes made directly by the application

vars == <<localStorage, now, location, calls, storeLog>>

---------------------------------------------------------------------------
(* Bounds of the model.                                                    *)

MaxTicks == 2       \* how many times the clock advances
MaxLog == 2         \* how many direct TokenManager writes storeLog remembers

TickMs == 1000      \* the clock advances in steps of TickMs milliseconds

---------------------------------------------------------------------------
(* JavaScript values.                                                      *)
(*   number        : [nan |-> BOOLEAN, n |-> Int]   (NaN, or a safe integer) *)
(*   string | null : [isNull |-> BOOLEAN, str |-> STRING]                  *)
(*   string        : a TLA+ string                                         *)
(*   JSON object   : a function from its keys to values                    *)

Num(i) == [nan |-> FALSE, n |-> i]
NaN == [nan |-> TRUE, n |-> 0]

null == [isNull |-> TRUE, str |-> ""]
Str(s) == [isNull |-> FALSE, str |-> s]

\* x * y and x + y on numbers: NaN is absorbing.
NumMul(x, y) == IF x.nan \/ y.nan THEN NaN ELSE Num(x.n * y.n)
NumAdd(x, y) == IF x.nan \/ y.nan THEN NaN ELSE Num(x.n + y.n)

\* x >= y on numbers: every comparison with NaN is false.
NumGe(x, y) == ~x.nan /\ ~y.nan /\ x.n >= y.n

Digits == <<"0", "1", "2", "3", "4", "5", "6", "7", "8", "9">>

RECURSIVE NatToString(_)
NatToString(i) ==
    IF i < 10 THEN Digits[i + 1]
    ELSE NatToString(i \div 10) \o Digits[(i % 10) + 1]

\* Number.prototype.toString(): decimal digits, a leading "-", or "NaN".
NumberToString(x) ==
    IF x.nan THEN "NaN"
    ELSE IF x.n < 0 THEN "-" \o NatToString(-x.n)
    ELSE NatToString(x.n)

DigitValue(ch) == CHOOSE d \in 0..9 : Digits[d + 1] = ch
IsDigit(ch) == \E d \in 0..9 : Digits[d + 1] = ch

\* The value of the longest prefix of digits of s from position i, with the
\* value acc read so far.
RECURSIVE ParseDigits(_, _, _)
ParseDigits(s, i, acc) ==
    IF i <= Len(s) /\ IsDigit(SubSeq(s, i, i))
    THEN ParseDigits(s, i + 1, acc * 10 + DigitValue(SubSeq(s, i, i)))
    ELSE acc

\* parseInt(v): String(v), an optional sign, then the longest prefix of
\* decimal digits; NaN when there is no digit.
parseInt(v) ==
    LET s == IF v.isNull THEN "null" ELSE v.str
        neg == Len(s) >= 1 /\ SubSeq(s, 1, 1) = "-"
        first == IF neg THEN 2 ELSE 1
    IN  IF first <= Len(s) /\ IsDigit(SubSeq(s, first, first))
        THEN Num((IF neg THEN -1 ELSE 1) * ParseDigits(s, first, 0))
        ELSE NaN

\* obj[key] of a JSON object: undefined when the key is missing.
HasKey(obj, key) == key \in DOMAIN obj

---------------------------------------------------------------------------
(* window.localStorage                                                     *)

EmptyStorage == [k \in {} |-> ""]

getItem(ls, key) == IF key \in DOMAIN ls THEN Str(ls[key]) ELSE null

setItem(ls, key, value) ==
    [k \in DOMAIN ls \cup {key} |-> IF k = key THEN value ELSE ls[k]]

removeItem(ls, key) == [k \in DOMAIN ls \ {key} |-> ls[k]]

---------------------------------------------------------------------------
(* class TokenManager                                                      *)

ACCESS_TOKEN_KEY == "admin_access_token"
REFRESH_TOKEN_KEY == "admin_refresh_token"
TOKEN_EXPIRY_KEY == "admin_token_expiry"

StorageKeys == {ACCESS_TOKEN_KEY, REFRESH_TOKEN_KEY, TOKEN_EXPIRY_KEY}

\* String(obj[key]) for a token field: "undefined" when the field is missing.
TokenField(obj, key) == IF HasKey(obj, key) THEN obj[key] ELSE "undefined"

\* obj.expires_in as a number operand of `*`: undefined converts to NaN.
ExpiresIn(obj) == IF HasKey(obj, "expires_in") THEN obj["expires_in"] ELSE NaN

\* The expiry setTokens computes: Date.now() + expires_in * 1000.
expiryTime(t, authResponse) ==
    NumAdd(Num(t), NumMul(ExpiresIn(authResponse), Num(1000)))

\* A mutant: expires_in is taken for milliseconds.
setTokens_expiresInAsMillis(ls, t, authResponse) ==
    LET ls1 == setItem(ls, ACCESS_TOKEN_KEY, TokenField(authResponse, "access_token"))
        ls2 == setItem(ls1, REFRESH_TOKEN_KEY, TokenField(authResponse, "refresh_token"))
    IN  setItem(ls2, TOKEN_EXPIRY_KEY,
                NumberToString(NumAdd(Num(t), ExpiresIn(authResponse))))

setTokens(ls, t, authResponse) ==
    LET ls1 == setItem(ls, ACCESS_TOKEN_KEY, TokenField(authResponse, "access_token"))
        ls2 == setItem(ls1, REFRESH_TOKEN_KEY, TokenField(authResponse, "refresh_token"))
    IN  setItem(ls2, TOKEN_EXPIRY_KEY, NumberToString(expiryTime(t, authResponse)))

getAccessToken(ls) == getItem(ls, ACCESS_TOKEN_KEY)

getRefreshToken(ls) == getItem(ls, REFRESH_TOKEN_KEY)

\* A mutant: the boundary instant itself is not yet expired.
isTokenExpired_strictlyAfter(ls, t) ==
    LET stored == getItem(ls, TOKEN_EXPIRY_KEY)
    IN  IF stored.isNull \/ stored.str = "" THEN TRUE
        ELSE LET expiry == parseInt(stored) IN ~expiry.nan /\ t > expiry.n

\* A mutant: the missing-expiry test is dropped, parseInt(null) is NaN.
isTokenExpired_noAbsentCheck(ls, t) ==
    NumGe(Num(t), parseInt(getItem(ls, TOKEN_EXPIRY_KEY)))

isTokenExpired(ls, t) ==
    LET stored == getItem(ls, TOKEN_EXPIRY_KEY)
    IN  IF stored.isNull \/ stored.str = "" THEN TRUE
        ELSE NumGe(Num(t), parseInt(stored))

\* A mutant: the expiry entry is left behind.
clearTokens_keepsExpiry(ls) ==
    removeItem(removeItem(ls, ACCESS_TOKEN_KEY), REFRESH_TOKEN_KEY)

clearTokens(ls) ==
    removeItem(removeItem(removeItem(ls, ACCESS_TOKEN_KEY), REFRESH_TOKEN_KEY),
               TOKEN_EXPIRY_KEY)

\* A mutant: only the presence of the token is tested.
isAuthenticated_ignoresExpiry(ls, t) == ~getAccessToken(ls).isNull

isAuthenticated(ls, t) ==
    LET token == getAccessToken(ls)
    IN  ~token.isNull /\ ~isTokenExpired(ls, t)

---------------------------------------------------------------------------
(* The backend, as far as the client can tell: the responses and the       *)
(* transport failures a fetch can end with.                                *)

EmptyObject == [k \in {} |-> ""]

\* Response bodies. kind "object": JSON text of the object obj; "null": the
\* JSON text null; "invalid": text that is no JSON (an HTML error page);
\* "empty": no body at all.
ObjectBody(obj) == [kind |-> "object", obj |-> obj]
NullBody == [kind |-> "null", obj |-> EmptyObject]
InvalidBody == [kind |-> "invalid", obj |-> EmptyObject]
EmptyBody == [kind |-> "empty", obj |-> EmptyObject]

\* A response as fetch resolves with it: the status line. The body arrives
\* later, when response.json() reads it.
Response(status, statusText) == [status |-> status, statusText |-> statusText]

NoResponse == Response(0, "")

\* response.ok: the status is in the range 200-299.
ok(response) == response.status >= 200 /\ response.status <= 299

\* The AuthResponse bodies the backend answers a login or a refresh with:
\* two well-formed pairs, a pair of empty strings, a pair without expires_in.
AuthResponses ==
    { [access_token |-> "a1", refresh_token |-> "r1", expires_in |-> Num(1)],
      [access_token |-> "a2", refresh_token |-> "r2", expires_in |-> Num(2)],
      [access_token |-> "", refresh_token |-> "", expires_in |-> Num(1)],
      [access_token |-> "a1", refresh_token |-> "r1"] }

Methods == {"login", "logout", "deletePromptTemplate"}

\* The status lines the backend may answer the primary request with.
ServerResponses(method) ==
    { Response(200, "OK"),
      Response(401, "Unauthorized"),
      Response(403, "Forbidden"),
      Response(500, "Internal Server Error"),
      Response(502, "Bad Gateway") }
    \cup (IF method = "deletePromptTemplate"
          THEN {Response(204, "No Content")} ELSE {})

\* The bodies that may come with a status line of the primary response.
ServerBodies(method, response) ==
    CASE response.status = 200 /\ method = "login" ->
            {ObjectBody(p) : p \in AuthResponses}
      [] response.status = 200 /\ method = "logout" ->
            {ObjectBody([message |-> "Logged out"])}
      [] response.status = 200 ->
            {ObjectBody([message |-> "Deleted"])}
      [] response.status = 204 -> {EmptyBody}
      [] response.status = 403 ->
            {ObjectBody([detail |-> "Not enough permissions"]),
             ObjectBody([detail |-> ""])}
      [] response.status = 500 ->
            {ObjectBody([error |-> "boom"]), NullBody}
      [] OTHER -> {InvalidBody}

\* The status lines the backend may answer POST /api/v1/auth/refresh with.
RefreshResponses == {Response(200, "OK"), Response(403, "Forbidden")}

\* The bodies that may come with an OK refresh response.
RefreshBodies == {ObjectBody(p) : p \in AuthResponses} \cup {NullBody, InvalidBody}

\* Thrown values: isError is `error instanceof Error`.
Error(message) == [isError |-> TRUE, message |-> message]

NetworkError == Error("Failed to fetch")
TimeoutError == Error("The operation timed out.")
TransportErrors == {NetworkError, TimeoutError}

\* response.json(): the parsed body, or a SyntaxError.
JsonParses(body) == body.kind \in {"object", "null"}
JsonValue(body) == [isNull |-> body.kind = "null", obj |-> body.obj]
JsonSyntaxError(body) ==
    IF body.kind = "empty" THEN Error("Unexpected end of JSON input")
    ELSE Error("Unexpected token '<' is not valid JSON")

---------------------------------------------------------------------------
(* class ApiClient                                                         *)

\* The slots of the client calls in flight: two calls are what the races of
\* the refresh protocol take.
Calls == {1, 2}

\* The outcome of a try block: a value returned or an error thrown.
Returned(value) == [threw |-> FALSE, value |-> value, error |-> Error("")]
Thrown(error) == [threw |-> TRUE, value |-> EmptyObject, error |-> error]

\* The state of the promise request() returned.
Pending == [settled |-> "pending", value |-> EmptyObject]
Fulfilled(value) == [settled |-> "fulfilled", value |-> value]
Rejected(error) == [settled |-> "rejected", value |-> [error |-> error.message]]

Idle ==
    [pc |-> "idle", method |-> "", headers |-> EmptyObject,
     response |-> NoResponse, status |-> 0, refreshToken |-> "",
     result |-> Pending, nPrimary |-> 0, nRefresh |-> 0,
     cleared |-> FALSE, redirected |-> FALSE]

\* `token && ...`, `!refreshToken`: null and "" are falsy.
Truthy(v) == ~v.isNull /\ v.str # ""

\* A mutant: the Authorization header is injected for any stored token,
\* expired or not.
requestHeaders_ignoresExpiry(ls, t) ==
    LET token == getAccessToken(ls)
    IN  IF Truthy(token)
        THEN ("Content-Type" :> "application/json")
             @@ ("Authorization" :> ("Bearer " \o token.str))
        ELSE ("Content-Type" :> "application/json")

\* The headers of the primary request (the client's methods pass none).
requestHeaders(ls, t) ==
    LET token == getAccessToken(ls)
    IN  IF Truthy(token) /\ ~isTokenExpired(ls, t)
        THEN ("Content-Type" :> "application/json")
             @@ ("Authorization" :> ("Bearer " \o token.str))
        ELSE ("Content-Type" :> "application/json")

\* A mutant: the failure envelope carries a data field too.
requestCatch_withData(error) ==
    [success |-> FALSE,
     message |-> IF error.isError THEN error.message ELSE "Unknown error occurred",
     data |-> null]

\* The catch block of request(): the failure envelope.
requestCatch(error) ==
    [success |-> FALSE,
     message |-> IF error.isError THEN error.message ELSE "Unknown error occurred"]

\* A mutant: the error is thrown on to the caller.
requestSettle_rethrows(outcome) ==
    IF outcome.threw THEN Rejected(outcome.error) ELSE Fulfilled(outcome.value)

\* How request() settles its promise from the outcome of its try block.
requestSettle(outcome) ==
    IF outcome.threw THEN Fulfilled(requestCatch(outcome.error))
    ELSE Fulfilled(outcome.value)

\* The statements after `await response.json()` resolved with data.
requestParsed(response, data) ==
    IF ~ok(response)
    THEN IF data.isNull
         THEN Thrown(Error("Cannot read properties of null (reading 'detail')"))
         ELSE IF HasKey(data.obj, "detail") /\ data.obj["detail"] # ""
         THEN Thrown(Error(data.obj["detail"]))
         ELSE Thrown(Error("HTTP " \o NatToString(response.status) \o ": "
                           \o response.statusText))
    ELSE Returned([success |-> TRUE, data |-> data])

\* A mutant: the call reports the outcome of the refresh.
requestAfterAuthError_reportsRefresh(cleared) ==
    IF cleared THEN Thrown(Error("Authentication required"))
    ELSE Thrown(Error("Token refreshed"))

\* The statement after `await this.handleAuthError()`.
requestAfterAuthError(cleared) == Thrown(Error("Authentication required"))

\* A mutant: the refresh request is sent with an Authorization header.
refreshHeaders_authorized ==
    ("Content-Type" :> "application/json") @@ ("Authorization" :> "Bearer")

\* The headers of the refresh request: a literal of handleAuthError().
refreshHeaders == ("Content-Type" :> "application/json")

\* A mutant: a stored refresh token is never used.
hasRefreshToken_never(ls) == FALSE

\* A mutant: the refresh is attempted whatever the store holds.
hasRefreshToken_always(ls) == TRUE

\* handleAuthError: `!refreshToken` is false.
hasRefreshToken(ls) == Truthy(getRefreshToken(ls))

---------------------------------------------------------------------------
(* The runs of request() and handleAuthError(), one action per run.        *)
(* pc of a call:                                                           *)
(*   "idle"          no call in this slot                                  *)
(*   "fetch"         request() awaits the primary fetch                    *)
(*   "json"          request() awaits response.json()                      *)
(*   "refresh"       handleAuthError() awaits the refresh fetch            *)
(*                   (headers and refreshToken are those of its request)   *)
(*   "refresh_json"  handleAuthError() awaits response.json()              *)
(*   "auth_done"     handleAuthError() returned, request() awaits it       *)
(*   "returned"      request() settled its promise, the method awaits it   *)
(*   "done"          the method settled its promise, its caller awaits it  *)

\* A client method is called: request() runs up to `await fetch(...)`.
\* (Slots are taken in order: which free slot a call takes makes no difference.)
Start(c, method) ==
    /\ calls[c].pc = "idle"
    /\ \A d \in Calls : d < c => calls[d].pc # "idle"
    /\ calls' = [calls EXCEPT ![c] =
                    [Idle EXCEPT !.pc = "fetch",
                                 !.method = method,
                                 !.headers = requestHeaders(localStorage, now),
                                 !.nPrimary = 1]]
    /\ UNCHANGED <<localStorage, now, location, storeLog>>

\* The primary fetch resolves with a response other than 401:
\* request() runs up to `await response.json()`.
PrimaryResponse(c, response) ==
    /\ calls[c].pc = "fetch"
    /\ response \in ServerResponses(calls[c].method)
    /\ response.status # 401
    /\ calls' = [calls EXCEPT ![c].pc = "json",
                              ![c].headers = EmptyObject,
                              ![c].response = response,
                              ![c].status = response.status]
    /\ UNCHANGED <<localStorage, now, location, storeLog>>

\* The primary fetch resolves with 401 and no refresh token is stored:
\* handleAuthError() clears the store, redirects and returns.
Unauthorized_NoRefreshToken(c, response) ==
    /\ calls[c].pc = "fetch"
    /\ response \in ServerResponses(calls[c].method)
    /\ response.status = 401
    /\ ~hasRefreshToken(localStorage)
    /\ localStorage' = clearTokens(localStorage)
    /\ location' = "/login"
    /\ calls' = [calls EXCEPT ![c].pc = "auth_done",
                              ![c].headers = EmptyObject,
                              ![c].status = response.status,
                              ![c].cleared = TRUE,
                              ![c].redirected = TRUE]
    /\ UNCHANGED <<now, storeLog>>

\* A mutant: handleAuthError() waits while another call is refreshing.
Unauthorized_Refresh_serialized(c, response) ==
    /\ calls[c].pc = "fetch"
    /\ response \in ServerResponses(calls[c].method)
    /\ response.status = 401
    /\ hasRefreshToken(localStorage)
    /\ \A d \in Calls \ {c} : calls[d].pc \notin {"refresh", "refresh_json"}
    /\ calls' = [calls EXCEPT ![c].pc = "refresh",
                              ![c].headers = refreshHeaders,
                              ![c].status = response.status,
                              ![c].refreshToken = getRefreshToken(localStorage).str,
                              ![c].nRefresh = @ + 1]
    /\ UNCHANGED <<localStorage, now, location, storeLog>>

\* The primary fetch resolves with 401 and a refresh token is stored:
\* handleAuthError() runs up to `await fetch(.../api/v1/auth/refresh)`.
Unauthorized_Refresh(c, response) ==
    /\ calls[c].pc = "fetch"
    /\ response \in ServerResponses(calls[c].method)
    /\ response.status = 401
    /\ hasRefreshToken(localStorage)
    /\ calls' = [calls EXCEPT ![c].pc = "refresh",
                              ![c].headers = refreshHeaders,
                              ![c].status = response.status,
                              ![c].refreshToken = getRefreshToken(localStorage).str,
                              ![c].nRefresh = @ + 1]
    /\ UNCHANGED <<localStorage, now, location, storeLog>>

\* A mutant: a transport failure is handled like an authentication failure,
\* the store is cleared and the browser redirected.
PrimaryFailure_handlesAuthError(c, error) ==
    /\ calls[c].pc = "fetch"
    /\ error \in TransportErrors
    /\ localStorage' = clearTokens(localStorage)
    /\ location' = "/login"
    /\ calls' = [calls EXCEPT ![c].pc = "returned",
                              ![c].headers = EmptyObject,
                              ![c].cleared = TRUE,
                              ![c].redirected = TRUE,
                              ![c].result = requestSettle(Thrown(error))]
    /\ UNCHANGED <<now, storeLog>>

\* The primary fetch rejects (network failure, or the timeout signal aborts
\* it): the catch block of request() returns the failure envelope.
PrimaryFailure(c, error) ==
    /\ calls[c].pc = "fetch"
    /\ error \in TransportErrors
    /\ calls' = [calls EXCEPT ![c].pc = "returned",
                              ![c].headers = EmptyObject,
                              ![c].result = requestSettle(Thrown(error))]
    /\ UNCHANGED <<localStorage, now, location, storeLog>>

\* response.json() of the primary response settles, having read the body:
\* request() runs to its end.
PrimaryJson(c, body) ==
    /\ calls[c].pc = "json"
    /\ body \in ServerBodies(calls[c].method, calls[c].response)
    /\ LET outcome == IF JsonParses(body)
                      THEN requestParsed(calls[c].response, JsonValue(body))
                      ELSE Thrown(JsonSyntaxError(body))
       IN  calls' = [calls EXCEPT ![c].pc = "returned",
                                  ![c].response = NoResponse,
                                  ![c].result = requestSettle(outcome)]
    /\ UNCHANGED <<localStorage, now, location, storeLog>>

\* The refresh fetch resolves with an OK response:
\* handleAuthError() runs up to `await response.json()`.
RefreshOk(c, response) ==
    /\ calls[c].pc = "refresh"
    /\ response \in RefreshResponses
    /\ ok(response)
    /\ calls' = [calls EXCEPT ![c].pc = "refresh_json",
                              ![c].headers = EmptyObject,
                              ![c].refreshToken = ""]
    /\ UNCHANGED <<localStorage, now, location, storeLog>>

\* A mutant: a refresh that is not OK redirects and leaves the store alone.
RefreshNotOk_redirectsOnly(c, response) ==
    /\ calls[c].pc = "refresh"
    /\ response \in RefreshResponses
    /\ ~ok(response)
    /\ location' = "/login"
    /\ calls' = [calls EXCEPT ![c].pc = "auth_done",
                              ![c].headers = EmptyObject,
                              ![c].refreshToken = "",
                              ![c].redirected = TRUE]
    /\ UNCHANGED <<localStorage, now, storeLog>>

\* The refresh fetch resolves with a response that is not OK:
\* handleAuthError() clears the store, redirects and returns.
RefreshNotOk(c, response) ==
    /\ calls[c].pc = "refresh"
    /\ response \in RefreshResponses
    /\ ~ok(response)
    /\ localStorage' = clearTokens(localStorage)
    /\ location' = "/login"
    /\ calls' = [calls EXCEPT ![c].pc = "auth_done",
                              ![c].headers = EmptyObject,
                              ![c].refreshToken = "",
                              ![c].cleared = TRUE,
                              ![c].redirected = TRUE]
    /\ UNCHANGED <<now, storeLog>>

\* The refresh fetch rejects: the catch block of handleAuthError() clears
\* the store and redirects.
RefreshFailure(c) ==
    /\ calls[c].pc = "refresh"
    /\ localStorage' = clearTokens(localStorage)
    /\ location' = "/login"
    /\ calls' = [calls EXCEPT ![c].pc = "auth_done",
                              ![c].headers = EmptyObject,
                              ![c].refreshToken = "",
                              ![c].cleared = TRUE,
                              ![c].redirected = TRUE]
    /\ UNCHANGED <<now, storeLog>>

\* response.json() of the refresh response resolves with an object:
\* handleAuthError() stores the tokens and returns.
RefreshJson_Stored(c, body) ==
    /\ calls[c].pc = "refresh_json"
    /\ body \in RefreshBodies
    /\ body.kind = "object"
    /\ localStorage' = setTokens(localStorage, now, body.obj)
    /\ calls' = [calls EXCEPT ![c].pc = "auth_done"]
    /\ UNCHANGED <<now, location, storeLog>>

\* response.json() of the refresh response rejects, or resolves with null so
\* that setTokens throws: the catch block of handleAuthError() clears the
\* store and redirects.
RefreshJson_Threw(c, body) ==
    /\ calls[c].pc = "refresh_json"
    /\ body \in RefreshBodies
    /\ body.kind # "object"
    /\ localStorage' = clearTokens(localStorage)
    /\ location' = "/login"
    /\ calls' = [calls EXCEPT ![c].pc = "auth_done",
                              ![c].cleared = TRUE,
                              ![c].redirected = TRUE]
    /\ UNCHANGED <<now, storeLog>>

\* A mutant: after a refresh that stored a new pair the primary request is
\* issued once more with the new token.
AuthErrorReturn_retries(c) ==
    /\ calls[c].pc = "auth_done"
    /\ calls' = [calls EXCEPT ![c] =
                    IF ~calls[c].cleared /\ calls[c].nPrimary = 1
                    THEN [calls[c] EXCEPT !.pc = "fetch",
                                          !.headers = requestHeaders(localStorage, now),
                                          !.status = 0,
                                          !.nPrimary = 2]
                    ELSE [calls[c] EXCEPT
                            !.pc = "returned",
                            !.result = requestSettle(requestAfterAuthError(calls[c].cleared))]]
    /\ UNCHANGED <<localStorage, now, location, storeLog>>

\* `await this.handleAuthError()` resumes: request() throws, catches and returns.
AuthErrorReturn(c) ==
    /\ calls[c].pc = "auth_done"
    /\ calls' = [calls EXCEPT
                    ![c].pc = "returned",
                    ![c].result = requestSettle(requestAfterAuthError(calls[c].cleared))]
    /\ UNCHANGED <<localStorage, now, location, storeLog>>

\* A mutant: logout() has no finally block.
afterRequest_noFinally(ls, call) == ls

\* What the client method does with the store once request() settled:
\* logout() clears it in its finally block, the other methods return the
\* envelope as it is.
afterRequest(ls, call) ==
    IF call.method = "logout" THEN clearTokens(ls) ELSE ls

\* The await of request() in the client method resumes. logout() runs its
\* finally block and settles its own promise; the other methods have nothing
\* after the await and the call ends.
Complete(c) ==
    /\ calls[c].pc = "returned"
    /\ localStorage' = afterRequest(localStorage, calls[c])
    /\ calls' = [calls EXCEPT ![c] =
                    IF calls[c].method = "logout"
                    THEN [calls[c] EXCEPT !.pc = "done"]
                    ELSE Idle]
    /\ UNCHANGED <<now, location, storeLog>>

\* The caller of a method that settled its own promise resumes: the call ends.
Release(c) ==
    /\ calls[c].pc = "done"
    /\ calls' = [calls EXCEPT ![c] = Idle]
    /\ UNCHANGED <<localStorage, now, location, storeLog>>

\* Time passes.
Tick ==
    /\ now < MaxTicks * TickMs
    /\ now' = now + TickMs
    /\ UNCHANGED <<localStorage, location, calls, storeLog>>

\* The store a page load finds: empty, or the pair an earlier session stored.
InitialStores ==
    { EmptyStorage,
      setTokens(EmptyStorage, 0,
                [access_token |-> "a1", refresh_token |-> "r1", expires_in |-> Num(1)]) }

Init ==
    /\ localStorage \in InitialStores
    /\ now = 0
    /\ location = "/"
    /\ calls = [c \in Calls |-> Idle]
    /\ storeLog = <<>>

\* The steps of request() and handleAuthError().
RequestStep ==
    \/ \E c \in Calls, method \in Methods : Start(c, method)
    \/ \E c \in Calls, response \in UNION {ServerResponses(m) : m \in Methods} :
            \/ PrimaryResponse(c, response)
            \/ Unauthorized_NoRefreshToken(c, response)
            \/ Unauthorized_Refresh(c, response)
    \/ \E c \in Calls, error \in TransportErrors : PrimaryFailure(c, error)
    \/ \E c \in Calls, body \in UNION {ServerBodies(m, r) : m \in Methods, r \in ServerResponses("deletePromptTemplate")} :
            PrimaryJson(c, body)
    \/ \E c \in Calls, response \in RefreshResponses :
            \/ RefreshOk(c, response)
            \/ RefreshNotOk(c, response)
    \/ \E c \in Calls : RefreshFailure(c)
    \/ \E c \in Calls, body \in RefreshBodies :
            \/ RefreshJson_Stored(c, body)
            \/ RefreshJson_Threw(c, body)
    \/ \E c \in Calls : AuthErrorReturn(c)
    \/ \E c \in Calls : Release(c)
    \/ Tick

Next ==
    \/ RequestStep
    \/ \E c \in Calls : Complete(c)

Spec == Init /\ [][Next]_vars

---------------------------------------------------------------------------
(* The client with the authentication context of the application around   *)
(* login(). Login.tsx calls the login of useAuth(), whose module is not    *)
(* part of the sources; it is modelled from the specification's lifecycle  *)
(* of the Token Pair: "created on successful login".                       *)

\* The login of the authentication context resumes after apiClient.login():
\* a success envelope has its pair stored, a failure envelope stores nothing.
AuthContextLogin(c) ==
    /\ calls[c].pc = "returned"
    /\ calls[c].method = "login"
    /\ LET response == calls[c].result.value
       IN  localStorage' =
               IF response.success /\ ~response.data.isNull
               THEN setTokens(localStorage, now, response.data.obj)
               ELSE localStorage
    /\ calls' = [calls EXCEPT ![c].pc = "done"]
    /\ UNCHANGED <<now, location, storeLog>>

\* The client methods other than login() resume as they do on their own.
AppComplete(c) == calls[c].method # "login" /\ Complete(c)

AppNext ==
    \/ RequestStep
    \/ \E c \in Calls : AppComplete(c)
    \/ \E c \in Calls : AuthContextLogin(c)

AppSpec == Init /\ [][AppNext]_vars

---------------------------------------------------------------------------
(* The client under the scheduling the runtime guarantees. The primary     *)
(* fetch carries AbortSignal.timeout(this.timeout), which also aborts the  *)
(* reading of its body: both settle. A continuation whose promise settled  *)
(* runs. The refresh fetch of handleAuthError() carries no signal: nothing *)
(* makes it, or the reading of its body, settle.                           *)

\* The steps of call c that are bound to happen once they can.
Settles(c) ==
    \/ \E response \in ServerResponses(calls[c].method) :
            \/ PrimaryResponse(c, response)
            \/ Unauthorized_NoRefreshToken(c, response)
            \/ Unauthorized_Refresh(c, response)
    \/ \E error \in TransportErrors : PrimaryFailure(c, error)
    \/ \E body \in ServerBodies(calls[c].method, calls[c].response) : PrimaryJson(c, body)
    \/ AuthErrorReturn(c)
    \/ Complete(c)
    \/ Release(c)

FairSpec == Init /\ [][Next]_vars /\ \A c \in Calls : WF_vars(Settles(c))

---------------------------------------------------------------------------
(* TokenManager on its own: the store starts in any state, partial ones    *)
(* included, and the application calls setTokens and clearTokens directly. *)

AccessTokenValues == {"", "a1"}
RefreshTokenValues == {"", "r1"}
ExpiryValues == {"", "NaN", "0", "1000", "2000"}

\* Every store over the three keys, each absent or holding one of the values.
ArbitraryStores ==
    UNION { { [k \in keys |-> CASE k = ACCESS_TOKEN_KEY -> a
                                [] k = REFRESH_TOKEN_KEY -> r
                                [] OTHER -> e] :
                a \in AccessTokenValues, r \in RefreshTokenValues, e \in ExpiryValues }
            : keys \in SUBSET StorageKeys }

\* storeLog with one more write, the oldest forgotten beyond MaxLog.
Logged(log, op) ==
    IF Len(log) < MaxLog THEN Append(log, op) ELSE Append(Tail(log), op)

StoreSetTokens(authResponse) ==
    /\ localStorage' = setTokens(localStorage, now, authResponse)
    /\ storeLog' = Logged(storeLog, "setTokens")
    /\ UNCHANGED <<now, location, calls>>

StoreClearTokens ==
    /\ localStorage' = clearTokens(localStorage)
    /\ storeLog' = Logged(storeLog, "clearTokens")
    /\ UNCHANGED <<now, location, calls>>

StoreInit ==
    /\ localStorage \in ArbitraryStores
    /\ now = 0
    /\ location = "/"
    /\ calls = [c \in Calls |-> Idle]
    /\ storeLog = <<>>

StoreNext ==
    \/ \E authResponse \in AuthResponses : StoreSetTokens(authResponse)
    \/ StoreClearTokens
    \/ Tick

StoreSpec == StoreInit /\ [][StoreNext]_vars

---------------------------------------------------------------------------
(* Properties of TokenManager (checked under StoreSpec).                   *)

HasItem(key) == key \in DOMAIN localStorage

\* C8: isAuthenticated() is true exactly when an access token is present and
\* isTokenExpired() is false; with a recorded numeric expiry that is: exactly
\* when the token is present and the clock is strictly before the expiry.
C8_AuthenticatedIffValid ==
    /\ isAuthenticated(localStorage, now)
         <=> (HasItem(ACCESS_TOKEN_KEY) /\ ~isTokenExpired(localStorage, now))
    /\ ~HasItem(TOKEN_EXPIRY_KEY) => ~isAuthenticated(localStorage, now)
    /\ \A e \in 0..2 :
         (HasItem(TOKEN_EXPIRY_KEY)
            /\ localStorage[TOKEN_EXPIRY_KEY] = NatToString(e * 1000))
         => (isAuthenticated(localStorage, now)
               <=> (HasItem(ACCESS_TOKEN_KEY) /\ now < e * 1000))

\* An access token is present, its expiry passed: not authenticated.
C8_Witness ==
    /\ HasItem(ACCESS_TOKEN_KEY)
    /\ HasItem(TOKEN_EXPIRY_KEY)
    /\ localStorage[TOKEN_EXPIRY_KEY] = "1000"
    /\ now = 2000
    /\ ~isAuthenticated(localStorage, now)

\* C9: with no expiry recorded isTokenExpired() is true, also when an access
\* token is present, and such a store is not authenticated.
C9_ExpiryFailClosed ==
    ~HasItem(TOKEN_EXPIRY_KEY)
    => (isTokenExpired(localStorage, now) /\ ~isAuthenticated(localStorage, now))

\* The partial store: an access token and no expiry.
C9_Witness ==
    /\ HasItem(ACCESS_TOKEN_KEY)
    /\ localStorage[ACCESS_TOKEN_KEY] = "a1"
    /\ ~HasItem(TOKEN_EXPIRY_KEY)
    /\ isTokenExpired(localStorage, now)

\* C10: after every clearTokens(), the first and the one that follows it, the
\* store holds none of the three fields, and clearing it again changes nothing.
C10_ClearIdempotent ==
    (Len(storeLog) >= 1 /\ storeLog[Len(storeLog)] = "clearTokens")
    => /\ localStorage = EmptyStorage
       /\ clearTokens(localStorage) = localStorage

\* clearTokens() was called twice in a row.
C10_Witness ==
    /\ storeLog = <<"clearTokens", "clearTokens">>
    /\ localStorage = EmptyStorage

---------------------------------------------------------------------------
(* Properties of request() and handleAuthError() (checked under Spec).     *)

AuthenticationRequired == [success |-> FALSE, message |-> "Authentication required"]

\* The step in which call c handles the 401 of its primary response, up to
\* the first await of handleAuthError() or to its return.
Handles401(c) ==
    /\ calls[c].pc = "fetch"
    /\ calls'[c].pc \in {"refresh", "auth_done"}
    /\ calls'[c].status = 401

\* C1: the promise of request() is never rejected, and once it is fulfilled
\* its value is an envelope whose success field is a boolean.
C1_EnvelopeTotality ==
    \A c \in Calls :
        /\ calls[c].result.settled # "rejected"
        /\ calls[c].result.settled = "fulfilled"
             => /\ HasKey(calls[c].result.value, "success")
                /\ calls[c].result.value["success"] \in BOOLEAN
        /\ calls[c].pc = "returned" => calls[c].result.settled = "fulfilled"

\* A call returned its envelope after a 401 whose refresh protocol cleared
\* the store.
C1_Witness ==
    \E c \in Calls :
        /\ calls[c].pc = "returned"
        /\ calls[c].status = 401
        /\ calls[c].cleared
        /\ calls[c].result.settled = "fulfilled"
        /\ calls[c].result.value["success"] = FALSE

\* C2: a call whose primary response was 401 returns the failure envelope
\* with the message 'Authentication required', whatever the refresh did.
C2_UnauthorizedEnvelope ==
    \A c \in Calls :
        (calls[c].pc = "returned" /\ calls[c].status = 401)
        => calls[c].result = Fulfilled(AuthenticationRequired)

\* A call returned after a 401 whose refresh succeeded and stored a pair.
C2_Witness ==
    \E c \in Calls :
        /\ calls[c].pc = "returned"
        /\ calls[c].status = 401
        /\ calls[c].nRefresh = 1
        /\ ~calls[c].cleared
        /\ calls[c].result = Fulfilled(AuthenticationRequired)

\* C3, as claimed: a call handling a 401 posts the refresh exactly once when
\* a refresh token is stored at that moment (no call ever posts it twice).
C3_RefreshOnceWhenStored ==
    /\ [](\A c \in Calls : calls[c].nRefresh <= 1)
    /\ [][\A c \in Calls :
            (Handles401(c) /\ HasItem(REFRESH_TOKEN_KEY)) => calls'[c].nRefresh = 1]_vars

\* C3, amended: a call handling a 401 posts the refresh exactly once when a
\* non-empty refresh token is stored at that moment, not at all when none or
\* the empty string is stored, and no call ever posts it twice.
C3_RefreshOnceWhenNonEmpty ==
    /\ [](\A c \in Calls : calls[c].nRefresh <= 1)
    /\ [][\A c \in Calls :
            Handles401(c)
            => calls'[c].nRefresh =
                 (IF HasItem(REFRESH_TOKEN_KEY) /\ localStorage[REFRESH_TOKEN_KEY] # ""
                  THEN 1 ELSE 0)]_vars

\* A call awaits the one refresh it posted with the stored refresh token.
C3_Witness ==
    \E c \in Calls :
        /\ calls[c].pc = "refresh"
        /\ calls[c].status = 401
        /\ calls[c].nRefresh = 1
        /\ calls[c].refreshToken = "r1"

\* C4: when the refresh response is OK and its body is a Token Pair, the step
\* in which handleAuthError() ends leaves exactly that pair in the store, the
\* expiry being the time of that step plus expires_in * 1000; the store is
\* not cleared and the browser is not redirected.
C4_RefreshStoresPair ==
    [][\A c \in Calls : \A p \in AuthResponses :
        (HasKey(p, "expires_in") /\ RefreshJson_Stored(c, ObjectBody(p)))
        => /\ getAccessToken(localStorage') = Str(p.access_token)
           /\ getRefreshToken(localStorage') = Str(p.refresh_token)
           /\ HasKey(localStorage', TOKEN_EXPIRY_KEY)
           /\ parseInt(getItem(localStorage', TOKEN_EXPIRY_KEY))
                = Num(now + p.expires_in.n * 1000)
           /\ DOMAIN localStorage' = StorageKeys
           /\ ~calls'[c].cleared
           /\ ~calls'[c].redirected
           /\ location' = location]_vars

\* handleAuthError() of a call returned having stored the pair (a2, r2, 2)
\* one second after the page load.
C4_Witness ==
    \E c \in Calls :
        /\ calls[c].pc = "auth_done"
        /\ calls[c].nRefresh = 1
        /\ ~calls[c].cleared
        /\ now = 1000
        /\ localStorage = (ACCESS_TOKEN_KEY :> "a2") @@ (REFRESH_TOKEN_KEY :> "r2")
                            @@ (TOKEN_EXPIRY_KEY :> "3000")

\* C5: when the refresh fetch ends with a response that is not OK or with a
\* transport exception, the step in which handleAuthError() ends leaves the
\* store without any of the three fields and the browser at the login route.
C5_RefreshFailureClears ==
    [][\A c \in Calls :
        (calls[c].pc = "refresh" /\ calls'[c].pc = "auth_done")
        => /\ localStorage' = EmptyStorage
           /\ location' = "/login"
           /\ calls'[c].cleared
           /\ calls'[c].redirected]_vars

\* handleAuthError() of a call returned after its one refresh failed.
C5_Witness ==
    \E c \in Calls :
        /\ calls[c].pc = "auth_done"
        /\ calls[c].nRefresh = 1
        /\ calls[c].cleared
        /\ calls[c].redirected
        /\ localStorage = EmptyStorage
        /\ location = "/login"

\* C6: when no refresh token is stored as a 401 is handled, that step posts
\* no refresh, clears the store, redirects to the login route and ends
\* handleAuthError(); the call never posts a refresh afterwards.
C6_NoRefreshTokenShortCircuits ==
    /\ [][\A c \in Calls :
            (Handles401(c) /\ ~HasItem(REFRESH_TOKEN_KEY))
            => /\ calls'[c].pc = "auth_done"
               /\ calls'[c].nRefresh = 0
               /\ localStorage' = EmptyStorage
               /\ location' = "/login"]_vars
    /\ [][\A c \in Calls :
            (calls[c].pc \in {"auth_done", "returned"} /\ calls'[c].pc # "idle")
            => calls'[c].nRefresh = calls[c].nRefresh]_vars

\* handleAuthError() of a call returned without having posted a refresh.
C6_Witness ==
    \E c \in Calls :
        /\ calls[c].pc = "auth_done"
        /\ calls[c].status = 401
        /\ calls[c].nRefresh = 0
        /\ calls[c].cleared
        /\ localStorage = EmptyStorage
        /\ location = "/login"

\* The step in which a client method is called in slot c.
Issues(c) == calls[c].pc = "idle" /\ calls'[c].pc = "fetch"

---------------------------------------------------------------------------
(* Properties of the store under the client (C11-C13).                     *)

\* C11: in every reachable state the three fields of the Token Pair are all
\* present in the store or all absent from it.
C11_PairAllOrNothing == DOMAIN localStorage \in {{}, StorageKeys}

\* A refresh stored a new pair over the one of the earlier session while the
\* call that triggered it is still in flight.
C11_Witness ==
    \E c \in Calls :
        /\ calls[c].pc = "auth_done"
        /\ calls[c].nRefresh = 1
        /\ ~calls[c].cleared
        /\ DOMAIN localStorage = StorageKeys
        /\ getAccessToken(localStorage) = Str("a2")

\* C12: the step in which logout() completes leaves the store empty,
\* whatever envelope its request() returned.
C12_LogoutClears ==
    [][\A c \in Calls :
          (calls[c].method = "logout" /\ calls[c].pc = "returned"
             /\ calls'[c].pc = "done")
          => localStorage' = EmptyStorage]_vars

\* logout() completed after a 401 whose refresh had stored a new pair.
C12_Witness ==
    \E c \in Calls :
        /\ calls[c].pc = "done"
        /\ calls[c].method = "logout"
        /\ calls[c].status = 401
        /\ calls[c].nRefresh = 1
        /\ ~calls[c].cleared
        /\ localStorage = EmptyStorage

---------------------------------------------------------------------------
(* Properties of request() on the paths without a 401 (C14-C17).           *)

\* C14: the steps of a request() call whose primary call does not end with
\* a 401 (its start, a non-401 response, a transport failure or timeout,
\* the parsing of the body) leave the store and the location as they were,
\* and the call never posts a refresh, clears the store or redirects.
C14_RefreshOnlyOn401 ==
    [][\A c \in Calls :
          (calls[c].pc \in {"idle", "fetch", "json"}
             /\ calls'[c].pc \in {"fetch", "json", "returned"}
             /\ calls'[c].pc # calls[c].pc)
          => /\ localStorage' = localStorage
             /\ location' = location
             /\ calls'[c].nRefresh = 0
             /\ ~calls'[c].cleared
             /\ ~calls'[c].redirected]_vars

\* A call returned after its primary fetch timed out: the stored pair and
\* the location are those of the page load.
C14_Witness ==
    \E c \in Calls :
        /\ calls[c].pc = "returned"
        /\ calls[c].status = 0
        /\ calls[c].result = Fulfilled([success |-> FALSE,
                                        message |-> TimeoutError.message])
        /\ calls[c].nRefresh = 0
        /\ getAccessToken(localStorage) = Str("a1")
        /\ location = "/"

\* C15: a request() call in flight or returned has issued exactly one
\* primary network call.
C15_OnePrimaryCall ==
    \A c \in Calls : calls[c].pc # "idle" => calls[c].nPrimary = 1

\* Two calls returned with one primary call each: one after a 401 whose
\* refresh stored a new pair, the other after a transport failure.
C15_Witness ==
    \E c, d \in Calls :
        /\ calls[c].pc = "returned"
        /\ calls[c].status = 401
        /\ calls[c].nRefresh = 1
        /\ ~calls[c].cleared
        /\ calls[c].nPrimary = 1
        /\ calls[d].pc = "returned"
        /\ calls[d].result = Fulfilled([success |-> FALSE,
                                        message |-> NetworkError.message])
        /\ calls[d].nPrimary = 1

\* The detail a body supplies: a non-empty `detail` of a JSON object.
SuppliesDetail(body) ==
    body.kind = "object" /\ HasKey(body.obj, "detail") /\ body.obj["detail"] # ""

\* C16: request() returns, for every non-401 response with a status outside
\* 200-299, the failure envelope whose message is the detail the body
\* supplies, or 'HTTP <status>: <statusText>' when it supplies none.
C16_ErrorMessage ==
    [][\A c \in Calls :
          \A body \in ServerBodies(calls[c].method, calls[c].response) :
            (PrimaryJson(c, body) /\ ~ok(calls[c].response))
            => calls'[c].result =
                  Fulfilled([success |-> FALSE,
                             message |->
                                IF SuppliesDetail(body) THEN body.obj["detail"]
                                ELSE "HTTP " \o NatToString(calls[c].response.status)
                                     \o ": " \o calls[c].response.statusText])]_vars

\* C17: the promise of request() is fulfilled with an envelope that, when
\* success is true, has the fields success and data only, data being the
\* parsed body of an OK response, and when success is false has the fields
\* success and message only.
C17_EnvelopeShape ==
    [][\A c \in Calls :
          (calls[c].pc # "returned" /\ calls'[c].pc = "returned")
          => /\ calls'[c].result.settled = "fulfilled"
             /\ LET envelope == calls'[c].result.value
                IN  IF envelope.success
                    THEN /\ DOMAIN envelope = {"success", "data"}
                         /\ ok(calls[c].response)
                         /\ \E body \in ServerBodies(calls[c].method, calls[c].response) :
                               /\ PrimaryJson(c, body)
                               /\ JsonParses(body)
                               /\ envelope.data = JsonValue(body)
                    ELSE /\ DOMAIN envelope = {"success", "message"}
                         /\ envelope.message # ""]_vars

\* One call returned the success envelope with the parsed body, another the
\* failure envelope with the message of the exception.
C17_Witness ==
    \E c, d \in Calls :
        /\ calls[c].pc = "returned"
        /\ calls[c].result = Fulfilled([success |-> TRUE,
                                        data |-> JsonValue(ObjectBody([message |-> "Deleted"]))])
        /\ calls[d].pc = "returned"
        /\ calls[d].result = Fulfilled([success |-> FALSE,
                                        message |-> "Unexpected token '<' is not valid JSON"])

---------------------------------------------------------------------------
(* Termination and concurrency of the refresh (C18-C19).                   *)

\* C18: every request() call that issued its primary fetch eventually
\* returns its envelope.
C18_EventuallyReturns ==
    \A c \in Calls : (calls[c].pc = "fetch") ~> (calls[c].pc = "returned")

\* C19: a refresh POST outstanding for one call does not hold back another:
\* a call awaiting its primary fetch while a refresh token is stored can
\* receive its 401 and post a refresh of its own.
C19_RefreshNotSerialized ==
    \A c, d \in Calls :
        (/\ c # d
         /\ calls[c].pc = "refresh"
         /\ calls[d].pc = "fetch"
         /\ hasRefreshToken(localStorage))
        => ENABLED Unauthorized_Refresh(d, Response(401, "Unauthorized"))

\* Two refresh POSTs are outstanding at the same time, both carrying the
\* refresh token of the stored pair.
C19_Witness ==
    /\ \A c \in Calls : /\ calls[c].pc = "refresh"
                        /\ calls[c].nRefresh = 1
                        /\ calls[c].refreshToken = "r1"

---------------------------------------------------------------------------
(* Operations without response data (C20).                                 *)

\* C20: deletePromptTemplate answered with a status in 200-299 and an empty
\* body returns a success envelope.
C20_EmptyBodySucceeds ==
    [][\A c \in Calls :
          (/\ calls[c].method = "deletePromptTemplate"
           /\ ok(calls[c].response)
           /\ PrimaryJson(c, EmptyBody))
          => calls'[c].result.value.success]_vars

---------------------------------------------------------------------------
(* The expiry of a stored pair (C21, C29; checked under StoreSpec).        *)

\* The instants the expiry test is evaluated at for a pair recorded to
\* expire at `expiry`: the ticks of the clock and the instants around expiry.
InstantsAround(expiry) ==
    {k * TickMs : k \in 0..(MaxTicks + 2)} \cup {expiry - 1, expiry, expiry + 1}

\* C21: setTokens at time t of a pair with expires_in = e records the expiry
\* t + e*1000, and on the store it leaves isTokenExpired() is false at every
\* instant strictly before t + e*1000 and true at every instant from it on.
C21_ExpiryBoundary ==
    [][\A p \in AuthResponses :
          (HasKey(p, "expires_in") /\ StoreSetTokens(p))
          => LET expiry == now + p.expires_in.n * 1000
             IN  /\ getItem(localStorage', TOKEN_EXPIRY_KEY) = Str(NatToString(expiry))
                 /\ \A t \in InstantsAround(expiry) :
                       isTokenExpired(localStorage', t) <=> (t >= expiry)]_vars

\* setTokens recorded the expiry 2000 and the clock stands at that instant:
\* the pair counts as expired.
C21_Witness ==
    /\ Len(storeLog) >= 1
    /\ storeLog[Len(storeLog)] = "setTokens"
    /\ getItem(localStorage, TOKEN_EXPIRY_KEY) = Str("2000")
    /\ now = 2000
    /\ isTokenExpired(localStorage, now)

\* C29: setTokens of a pair without a numeric expires_in, whose recorded
\* expiry is no valid number, leaves a store on which isTokenExpired() is
\* true and isAuthenticated() is false.
C29_InvalidExpiryFailClosed ==
    [][\A p \in AuthResponses :
          (~HasKey(p, "expires_in") /\ StoreSetTokens(p))
          => /\ parseInt(getItem(localStorage', TOKEN_EXPIRY_KEY)).nan
             /\ isTokenExpired(localStorage', now')
             /\ ~isAuthenticated(localStorage', now')]_vars

---------------------------------------------------------------------------
(* The effects of the 401 handling (C22-C24).                              *)

\* C22: the step of a 401 handling that redirects to the login route is the
\* step in which it cleared the store, and the other way round; the location
\* changes in no other step, and a 401 handling that stored the refreshed
\* pair ends without a redirect.
C22_RedirectIffCleared ==
    [][/\ \A c \in Calls :
            /\ (calls'[c].redirected /\ ~calls[c].redirected)
                  => /\ calls'[c].cleared /\ ~calls[c].cleared
                     /\ localStorage' = EmptyStorage
                     /\ location' = "/login"
            /\ (calls'[c].cleared /\ ~calls[c].cleared)
                  => /\ calls'[c].redirected /\ ~calls[c].redirected
                     /\ location' = "/login"
            /\ \A body \in RefreshBodies :
                  RefreshJson_Stored(c, body)
                  => /\ location' = location
                     /\ ~calls'[c].redirected
                     /\ ~calls'[c].cleared
       /\ location' # location
            => \E c \in Calls : calls'[c].redirected /\ ~calls[c].redirected]_vars

\* One 401 handling ended with the store cleared and the redirect after its
\* refresh failed; the 401 handling of the other call posted a refresh too
\* and did not redirect.
C22_Witness ==
    \E c, d \in Calls :
        /\ calls[c].pc = "auth_done"
        /\ calls[c].nRefresh = 1
        /\ calls[c].cleared
        /\ calls[c].redirected
        /\ location = "/login"
        /\ localStorage = EmptyStorage
        /\ calls[d].pc \in {"auth_done", "returned"}
        /\ calls[d].nRefresh = 1
        /\ ~calls[d].redirected

\* The instants from t on at which a pair stored at t with expires_in = e
\* seconds has not expired: the ticks of the clock and the last millisecond.
InstantsBeforeExpiry(t, e) ==
    {u \in {t + k * TickMs : k \in 0..MaxTicks} \cup {t + e * 1000 - 1} :
        u < t + e * 1000}

\* The headers request() sends when it is issued at instant u on store ls
\* carry the bearer token `token`.
CarriesBearer(ls, u, token) ==
    /\ HasKey(requestHeaders(ls, u), "Authorization")
    /\ requestHeaders(ls, u)["Authorization"] = "Bearer " \o token

C24_RefreshUnauthenticated ==
    [][\A c \in Calls :
          (calls[c].pc = "fetch" /\ calls'[c].pc = "refresh")
          => /\ calls'[c].refreshToken = getRefreshToken(localStorage).str
             /\ ~getRefreshToken(localStorage).isNull
             /\ ~HasKey(calls'[c].headers, "Authorization")
             /\ DOMAIN calls'[c].headers = {"Content-Type"}]_vars

\* A refresh POST is outstanding while the stored access token has not
\* expired: it carries the stored refresh token and no Authorization header.
C24_Witness ==
    \E c \in Calls :
        /\ calls[c].pc = "refresh"
        /\ isAuthenticated(localStorage, now)
        /\ HasKey(requestHeaders(localStorage, now), "Authorization")
        /\ calls[c].refreshToken = "r1"
        /\ ~HasKey(calls[c].headers, "Authorization")

---------------------------------------------------------------------------
(* Agreement of the two validity tests, and the races on the store         *)
(* (C25-C28).                                                              *)

\* C25: a request() call carries an Authorization header exactly when
\* isAuthenticated() is true on the store at the moment the call is issued.
C25_HeaderIffAuthenticated ==
    [][\A c \in Calls :
          Issues(c)
          => (HasKey(calls'[c].headers, "Authorization")
                <=> isAuthenticated(localStorage, now))]_vars

\* A store that holds a whole pair as a well-behaved backend issues it:
\* non-empty tokens and an expiry that reads as a number. The races below
\* are stated for such pairs, so that they rest on no malformed answer.
WellFormedStore(ls) ==
    /\ DOMAIN ls = StorageKeys
    /\ ls[ACCESS_TOKEN_KEY] # ""
    /\ ls[REFRESH_TOKEN_KEY] # ""
    /\ ~parseInt(Str(ls[TOKEN_EXPIRY_KEY])).nan

\* C26: once logout() has completed and left the store empty, no step of a
\* call that was in flight puts a pair into the store.
C26_StaysClearedAfterLogout ==
    [][\A c, d \in Calls :
          (/\ c # d
           /\ calls[d].method = "logout"
           /\ calls[d].pc = "done"
           /\ localStorage = EmptyStorage
           /\ calls[c].pc \notin {"idle", "done"}
           /\ calls'[c].pc # calls[c].pc
           /\ (localStorage' = EmptyStorage \/ WellFormedStore(localStorage')))
          => localStorage' = EmptyStorage]_vars

\* C27: a 401 handling whose refresh was posted with a refresh token other
\* than the one now stored, the pair having been replaced since, leaves the
\* stored pair as it is when its own refresh fails.
C27_FailedRefreshKeepsNewerPair ==
    [][\A c \in Calls :
          (/\ calls[c].pc = "refresh"
           /\ calls'[c].pc = "auth_done"
           /\ WellFormedStore(localStorage)
           /\ localStorage[REFRESH_TOKEN_KEY] # calls[c].refreshToken)
          => localStorage' = localStorage]_vars

\* C28: no step of a login() call that does not return a success envelope
\* turns a store on which isAuthenticated() is false into one on which it
\* is true.
C28_FailedLoginStaysUnauthenticated ==
    [][\A c \in Calls :
          (/\ calls'[c].method = "login"
           /\ calls'[c].pc # calls[c].pc
           /\ calls'[c].pc \in {"fetch", "json", "refresh", "refresh_json",
                                "auth_done", "returned"}
           /\ ~(calls'[c].pc = "returned" /\ calls'[c].result.value.success)
           /\ ~isAuthenticated(localStorage, now)
           /\ (localStorage' = EmptyStorage \/ WellFormedStore(localStorage')))
          => ~isAuthenticated(localStorage', now')]_vars

=============================================================================
